---------------------------- MODULE Spec2Model ----------------------------
(***************************************************************************)
(* Behavioral design pattern examples.                                     *)
(*                                                                         *)
(*   - command_textEditor.ts : TextEditor (receiver), TypeCommand,         *)
(*     DeleteCommand, EditorInvoker (history stack with undo).             *)
(*   - chainOfResponsibility_login.ts : AbstractHandler.setNext and the    *)
(*     links between handlers; handle of UserExistsHandler,                *)
(*     PasswordHandler and RoleHandler, one invocation per step.           *)
(*   - state_trafficLight.ts : TrafficLight and its three states.          *)
(*   - observer_Stock.ts : Subject (subscribe, unsubscribe, notify) and    *)
(*     the price setter of Stock.                                          *)
(*   - mediator_Chatroom.ts : Chatroom (register, send) and User.          *)
(*   - unnamed/part_002 : FriendIterator (hasNext, next).                  *)
(*   - unnamed/part_001 : Player, PlayerMemento and GameHistory.           *)
(*                                                                         *)
(* A text is a sequence of one-character strings, so that length, slice    *)
(* and concatenation are computed as String.prototype does.                *)
(***************************************************************************)
EXTENDS Integers, Sequences, FiniteSets, TLC

VARIABLES
    text,         \* TextEditor.text
    cmds,         \* the command objects constructed so far, in construction order
    history,      \* EditorInvoker.history: references (indices into cmds)
    stats,        \* per command object: text before its execute, number of execute()/undo() calls
    lastCall,     \* the most recent EditorInvoker call and what it did
    prevCall,     \* the EditorInvoker call before that
    phase,        \* "exec": only executeCommand so far; "undo": then only undo; "mixed" otherwise
    script,       \* position in the documented usage example, -1 when the calls left it
    pres,         \* per history entry: the editor text just before that execution
    nextHandler,  \* AbstractHandler.nextHandler of every handler object
    ret,          \* value returned by the most recent setNext call
    setCalls,     \* the setNext calls made so far
    requiredRole, \* RoleHandler.requiredRole of roleCheck
    head,         \* the handler the client called handle on (Null before any call)
    request,      \* the request object of that call, as it is now
    request0,     \* the request as the client passed it
    current,      \* the handler whose handle is about to run (Null when no call is running)
    invoked,      \* the handle invocations of the running call, in order
    out,          \* the console lines of the running call
    threw,        \* the exception that ended the call ("" when none)
    users,        \* UserExistsHandler.users of userExists
    served,       \* number of handle calls the client has made
    lightState,   \* TrafficLight.state, by the name of the state object
    lightLog,     \* the TrafficLight calls made so far: state before, console lines
    observers,    \* Subject.observers of the stock
    price,        \* Stock._price
    stockLog,     \* the calls made on the stock so far, with the updates each one caused
    roomUsers,    \* Chatroom.users: the own properties, in insertion order
    chatroomOf,   \* User.chatroom of every user object
    lastSend,     \* the most recent User.send call: console lines and receive calls
    friends,      \* FriendIterator.friends
    position,     \* FriendIterator.position
    iterLog,      \* the iterator calls made so far: position before, value returned
    level,        \* Player.level
    task,         \* Player.task
    score,        \* Player.score
    mementos,     \* the PlayerMemento objects constructed so far, in construction order
    gameHistory,  \* GameHistory.history: references (indices into mementos)
    playerLog     \* the Player calls made so far, with the player's fields after each

editorVars == <<text, cmds, history, stats, lastCall, prevCall, phase, script, pres>>
chainVars == <<nextHandler, ret, setCalls>>
handleVars == <<requiredRole, head, request, request0, current, invoked, out, threw,
                users, served>>
vars == <<text, cmds, history, stats, lastCall, prevCall, phase, script, pres,
          nextHandler, ret, setCalls,
          requiredRole, head, request, request0, current, invoked, out, threw,
          users, served,
          lightState, lightLog, observers, price, stockLog,
          roomUsers, chatroomOf, lastSend,
          friends, position, iterLog,
          level, task, score, mementos, gameHistory, playerLog>>
lightVars == <<lightState, lightLog>>
stockVars == <<observers, price, stockLog>>
chatVars == <<roomUsers, chatroomOf, lastSend>>
iterVars == <<friends, position, iterLog>>
playerVars == <<level, task, score, mementos, gameHistory, playerLog>>

---------------------------------------------------------------------------
(* Bounds of the model *)

MaxTypeLen == 1
MaxCount == 3
MaxCmds == 3
MaxSetCalls == 3
MaxCallDepth == 4
MaxHandleCalls == 2
MaxLightCalls == 6
MaxStockCalls == 5
MaxFriends == 3
MaxIterCalls == 5
MaxPlayerCalls == 4

Chars == {"a", "b"}

Min(a, b) == IF a < b THEN a ELSE b
Max(a, b) == IF a > b THEN a ELSE b

RECURSIVE TextsOfLen(_)
TextsOfLen(n) ==
    IF n = 0 THEN {<< >>}
    ELSE {Append(s, c) : s \in TextsOfLen(n - 1), c \in Chars}

TypeTexts == UNION {TextsOfLen(n) : n \in 0..MaxTypeLen}
Counts == 0..MaxCount

---------------------------------------------------------------------------
(* String primitives used by the editor *)

\* A relative index of String.prototype.slice: negative counts from the end,
\* the result is clamped to 0..len.  -0 is 0.
RelIndex(i, len) == IF i < 0 THEN Max(len + i, 0) ELSE Min(i, len)

\* s.slice(start, end)
Slice(s, start, end) ==
    LET from == RelIndex(start, Len(s))
        to == RelIndex(end, Len(s))
    IN  IF from >= to THEN << >> ELSE SubSeq(s, from + 1, to)

\* s.slice(start)
SliceFrom(s, start) ==
    LET from == RelIndex(start, Len(s))
    IN  IF from >= Len(s) THEN << >> ELSE SubSeq(s, from + 1, Len(s))

---------------------------------------------------------------------------
(* Receiver: TextEditor *)

addText(txt, newText) == txt \o newText

deleteText_off(txt, count) == Slice(txt, 0, -(count + 1))
deleteText(txt, count) == Slice(txt, 0, -count)

---------------------------------------------------------------------------
(* Concrete commands.  A command object is a record                        *)
(* [kind, textToAdd, count, deletedText]; a TypeCommand leaves count and   *)
(* deletedText unused, a DeleteCommand leaves textToAdd unused.            *)

NewTypeCommand(textToAdd) ==
    [kind |-> "Type", textToAdd |-> textToAdd, count |-> 0, deletedText |-> << >>]

NewDeleteCommand(count) ==
    [kind |-> "Delete", textToAdd |-> << >>, count |-> count, deletedText |-> << >>]

\* execute() and undo() give the editor text and the command object afterwards.
TypeExecute(txt, c) == [text |-> addText(txt, c.textToAdd), cmd |-> c]

TypeUndo_keep(txt, c) == [text |-> txt, cmd |-> c]
TypeUndo(txt, c) == [text |-> deleteText(txt, Len(c.textToAdd)), cmd |-> c]

DeleteExecute_fromLength(txt, c) ==
    LET currentText == txt
    IN  [text |-> deleteText(txt, c.count),
         cmd |-> [c EXCEPT !.deletedText = SliceFrom(currentText, Len(currentText) - c.count)]]
DeleteExecute(txt, c) ==
    LET currentText == txt
    IN  [text |-> deleteText(txt, c.count),
         cmd |-> [c EXCEPT !.deletedText = SliceFrom(currentText, -c.count)]]

DeleteUndo(txt, c) == [text |-> addText(txt, c.deletedText), cmd |-> c]

CommandExecute(txt, c) ==
    IF c.kind = "Type" THEN TypeExecute(txt, c) ELSE DeleteExecute(txt, c)

CommandUndo(txt, c) ==
    IF c.kind = "Type" THEN TypeUndo(txt, c) ELSE DeleteUndo(txt, c)

---------------------------------------------------------------------------
(* Invoker: EditorInvoker *)

NoCommand == 0

\* history.push(command)
HistoryPush_twice(h, command) == Append(Append(h, command), command)
HistoryPush(h, command) == Append(h, command)

\* history.pop(): the removed element (undefined, here NoCommand, when empty)
\* and the remaining array.
HistoryPop_front(h) ==
    IF h = << >> THEN [command |-> NoCommand, rest |-> << >>]
    ELSE [command |-> Head(h), rest |-> Tail(h)]
HistoryPop(h) ==
    IF h = << >> THEN [command |-> NoCommand, rest |-> << >>]
    ELSE [command |-> h[Len(h)], rest |-> SubSeq(h, 1, Len(h) - 1)]

\* The body of EditorInvoker.undo after the pop: the editor text, the command
\* objects and the console line.
UndoPopped_unchecked(txt, heap, command) ==
    IF command # NoCommand
    THEN LET r == CommandUndo(txt, heap[command])
         IN  [text |-> r.text, cmds |-> [heap EXCEPT ![command] = r.cmd], log |-> ""]
    ELSE [text |-> txt, cmds |-> heap, log |-> "TypeError: command is undefined"]
UndoPopped(txt, heap, command) ==
    IF command # NoCommand
    THEN LET r == CommandUndo(txt, heap[command])
         IN  [text |-> r.text, cmds |-> [heap EXCEPT ![command] = r.cmd], log |-> ""]
    ELSE [text |-> txt, cmds |-> heap, log |-> "Nothing to undo"]

---------------------------------------------------------------------------
(* The documented usage example *)

Hello == <<"H", "e", "l", "l", "o">>
World == <<" ", "W", "o", "r", "l", "d">>
DemoDeleteCount == 6

Call(op, c) == [op |-> op, kind |-> c.kind, textToAdd |-> c.textToAdd, count |-> c.count]
UndoCall == [op |-> "undo", kind |-> "", textToAdd |-> << >>, count |-> 0]

DemoCalls ==
    << Call("executeCommand", NewTypeCommand(Hello)),
       Call("executeCommand", NewTypeCommand(World)),
       Call("executeCommand", NewDeleteCommand(DemoDeleteCount)),
       UndoCall, UndoCall, UndoCall >>

\* The "Current Text" lines of the documented output.
DemoOutput ==
    << Hello, Hello \o World, Hello, Hello \o World, Hello, << >> >>

ScriptStep(pos, call) ==
    IF pos >= 0 /\ pos < Len(DemoCalls) /\ DemoCalls[pos + 1] = call
    THEN pos + 1 ELSE -1

---------------------------------------------------------------------------
(* Editor actions *)

NoCall == [op |-> "none", cmd |-> NoCommand, log |-> ""]

\* The numbers of execute() and undo() calls made on the first n command objects.
RECURSIVE SumExecs(_), SumUndos(_)
SumExecs(n) == IF n = 0 THEN 0 ELSE stats[n].execs + SumExecs(n - 1)
SumUndos(n) == IF n = 0 THEN 0 ELSE stats[n].undos + SumUndos(n - 1)

InitEditor ==
    /\ text = << >>
    /\ cmds = << >>
    /\ history = << >>
    /\ stats = << >>
    /\ lastCall = NoCall
    /\ prevCall = NoCall
    /\ phase = "exec"
    /\ script = 0
    /\ pres = << >>

\* invoker.executeCommand(c) with c a freshly constructed command object
ExecuteCommand(c) ==
    /\ Len(cmds) < MaxCmds
    /\ LET command == Len(cmds) + 1
           r == CommandExecute(text, c)
       IN  /\ text' = r.text
           /\ cmds' = Append(cmds, r.cmd)
           /\ history' = HistoryPush(history, command)
           /\ stats' = Append(stats, [pre |-> text, execs |-> 1, undos |-> 0])
           /\ lastCall' = [op |-> "executeCommand", cmd |-> command, log |-> ""]
    /\ prevCall' = lastCall
    /\ phase' = IF phase = "exec" THEN "exec" ELSE "mixed"
    /\ script' = ScriptStep(script, Call("executeCommand", c))
    /\ pres' = Append(pres, text)

\* invoker.executeCommand(c) with c a command object executed before
ReExecuteCommand(command) ==
    /\ SumExecs(Len(stats)) < MaxCmds
    /\ LET r == CommandExecute(text, cmds[command])
       IN  /\ text' = r.text
           /\ cmds' = [cmds EXCEPT ![command] = r.cmd]
           /\ history' = HistoryPush(history, command)
           /\ stats' = [stats EXCEPT ![command].execs = @ + 1]
           /\ lastCall' = [op |-> "executeCommand", cmd |-> command, log |-> ""]
    /\ prevCall' = lastCall
    /\ phase' = IF phase = "exec" THEN "exec" ELSE "mixed"
    /\ script' = ScriptStep(script, Call("executeCommand", cmds[command]))
    /\ pres' = Append(pres, text)

\* invoker.undo()
Undo ==
    /\ LET p == HistoryPop(history)
           r == UndoPopped(text, cmds, p.command)
       IN  /\ history' = p.rest
           /\ text' = r.text
           /\ cmds' = r.cmds
           /\ stats' = IF p.command # NoCommand
                       THEN [stats EXCEPT ![p.command].undos = @ + 1]
                       ELSE stats
           /\ lastCall' = [op |-> "undo", cmd |-> p.command, log |-> r.log]
    /\ prevCall' = lastCall
    /\ phase' = IF phase = "mixed" THEN "mixed" ELSE "undo"
    /\ script' = ScriptStep(script, UndoCall)
    /\ pres' = IF pres = << >> THEN << >> ELSE SubSeq(pres, 1, Len(pres) - 1)

ExecuteType == \E t \in TypeTexts : ExecuteCommand(NewTypeCommand(t))
ExecuteDelete == \E n \in Counts : ExecuteCommand(NewDeleteCommand(n))
ReExecute == \E command \in 1..Len(cmds) : ReExecuteCommand(command)

DemoType == \E t \in {Hello, World} : ExecuteCommand(NewTypeCommand(t))
DemoDelete == ExecuteCommand(NewDeleteCommand(DemoDeleteCount))

---------------------------------------------------------------------------
(* Handler chain: links *)

Handlers == {"userExists", "passwordCheck", "roleCheck"}
Null == "null"

\* this.setNext(handler): the links afterwards and the returned handler
setNext_keepFirst(links, this, handler) ==
    [links |-> IF links[this] = Null THEN [links EXCEPT ![this] = handler] ELSE links,
     ret |-> handler]
setNext_this(links, this, handler) ==
    [links |-> [links EXCEPT ![this] = handler], ret |-> this]
setNext(links, this, handler) ==
    [links |-> [links EXCEPT ![this] = handler], ret |-> handler]

InitChain ==
    /\ nextHandler = [h \in Handlers |-> Null]
    /\ ret = Null
    /\ setCalls = << >>

CallSetNext(this, handler, fluent) ==
    /\ Len(setCalls) < MaxSetCalls
    /\ LET r == setNext(nextHandler, this, handler)
       IN  /\ nextHandler' = r.links
           /\ ret' = r.ret
    /\ setCalls' = Append(setCalls, [this |-> this, handler |-> handler, fluent |-> fluent])

\* x.setNext(h) on a handler variable of the client
SetNextDirect == \E this \in Handlers, handler \in Handlers : CallSetNext(this, handler, FALSE)

\* (...).setNext(h): the receiver is the value the previous setNext returned
SetNextFluent ==
    /\ ret # Null
    /\ \E handler \in Handlers : CallSetNext(ret, handler, TRUE)

---------------------------------------------------------------------------
(* Handler chain: handle *)

HandlerKind ==
    [h \in Handlers |->
        IF h = "userExists" THEN "UserExistsHandler"
        ELSE IF h = "passwordCheck" THEN "PasswordHandler" ELSE "RoleHandler"]

\* A value of request.userData: undefined, a {password, role} record, or
\* another object (password and role are then undefined).
Undefined == [kind |-> "undefined", password |-> "", role |-> ""]
UserRecord(password, role) == [kind |-> "record", password |-> password, role |-> role]
OtherObject(name) == [kind |-> "object", password |-> "", role |-> name]

\* UserExistsHandler.users
Users ==
    [u \in {"alice", "bob"} |->
        IF u = "alice" THEN UserRecord("1234", "admin") ELSE UserRecord("abcd", "user")]

\* The properties an object literal inherits from Object.prototype: its
\* twelve own properties, the legacy accessor helpers included.
ObjectPrototypeKeys ==
    {"constructor", "toString", "toLocaleString", "valueOf", "hasOwnProperty",
     "isPrototypeOf", "propertyIsEnumerable", "__proto__",
     "__defineGetter__", "__defineSetter__", "__lookupGetter__", "__lookupSetter__"}

\* this.users[username]
UsersLookup(username) ==
    IF username \in DOMAIN users THEN users[username]
    ELSE IF username \in ObjectPrototypeKeys THEN OtherObject(username)
    ELSE Undefined

\* x is truthy: undefined is not, every object is
Truthy(x) == x.kind # "undefined"

UserNotFound == "User does not exist!"
IncorrectPassword == "Incorrect password!"
AccessDenied == "Access denied! Role is not valid."
LoggedIn == "User successfully logged in!"

\* AbstractHandler.handle(request): the handler invoked (Null when none) and
\* the request it is given.
AbstractHandle_self(links, this, req) ==
    [callee |-> this, request |-> req]
AbstractHandle(links, this, req) ==
    IF links[this] # Null
    THEN [callee |-> links[this], request |-> req]
    ELSE [callee |-> Null, request |-> req]

\* The body of a concrete handle up to its return or its super.handle call:
\* verdict "fail" (reported, returned), "pass" (predicate held) or "throw";
\* the console lines; the request afterwards; whether super.handle is called.
Result(verdict, lines, req, super, error) ==
    [verdict |-> verdict, out |-> lines, request |-> req, superCalled |-> super,
     threw |-> error]

UserExistsHandle_noReturn(req) ==
    IF ~Truthy(UsersLookup(req.username))
    THEN Result("fail", <<UserNotFound>>,
                [req EXCEPT !.userData = UsersLookup(req.username)], TRUE, "")
    ELSE Result("pass", << >>, [req EXCEPT !.userData = UsersLookup(req.username)], TRUE, "")
UserExistsHandle(req) ==
    IF ~Truthy(UsersLookup(req.username))
    THEN Result("fail", <<UserNotFound>>, req, FALSE, "")
    ELSE Result("pass", << >>, [req EXCEPT !.userData = UsersLookup(req.username)], TRUE, "")

\* userData.password !== password, for a userData that is not undefined
PasswordDiffers(userData, password) ==
    ~(userData.kind = "record" /\ userData.password = password)

PasswordHandle_always(req) ==
    IF ~Truthy(req.userData) THEN Result("throw", << >>, req, FALSE, "TypeError")
    ELSE Result("pass", << >>, req, TRUE, "")
PasswordHandle_strip(req) ==
    IF ~Truthy(req.userData) THEN Result("throw", << >>, req, FALSE, "TypeError")
    ELSE IF PasswordDiffers(req.userData, req.password)
    THEN Result("fail", <<IncorrectPassword>>, req, FALSE, "")
    ELSE Result("pass", << >>, [req EXCEPT !.userData = Undefined], TRUE, "")
PasswordHandle(req) ==
    IF ~Truthy(req.userData) THEN Result("throw", << >>, req, FALSE, "TypeError")
    ELSE IF PasswordDiffers(req.userData, req.password)
    THEN Result("fail", <<IncorrectPassword>>, req, FALSE, "")
    ELSE Result("pass", << >>, req, TRUE, "")

\* userData.role !== requiredRole, for a userData that is not undefined
RoleDiffers(userData, role) ==
    ~(userData.kind = "record" /\ userData.role = role)

RoleHandle_noReturn(req, role) ==
    IF ~Truthy(req.userData) THEN Result("throw", << >>, req, FALSE, "TypeError")
    ELSE IF RoleDiffers(req.userData, role)
    THEN Result("fail", <<AccessDenied, LoggedIn>>, req, FALSE, "")
    ELSE Result("pass", <<LoggedIn>>, req, FALSE, "")
RoleHandle_admin(req, role) ==
    IF ~Truthy(req.userData) THEN Result("throw", << >>, req, FALSE, "TypeError")
    ELSE IF RoleDiffers(req.userData, "admin")
    THEN Result("fail", <<AccessDenied>>, req, FALSE, "")
    ELSE Result("pass", <<LoggedIn>>, req, FALSE, "")
RoleHandle(req, role) ==
    IF ~Truthy(req.userData) THEN Result("throw", << >>, req, FALSE, "TypeError")
    ELSE IF RoleDiffers(req.userData, role)
    THEN Result("fail", <<AccessDenied>>, req, FALSE, "")
    ELSE Result("pass", <<LoggedIn>>, req, FALSE, "")

\* this.users after this.handle(request): no handler writes the table.
TableAfter_oneShot(table, this, req) ==
    IF HandlerKind[this] = "UserExistsHandler" /\ req.username \in DOMAIN table
    THEN [u \in DOMAIN table \ {req.username} |-> table[u]]
    ELSE table
TableAfter(table, this, req) == table

\* this.handle(request), dispatched on the class of this
ConcreteHandle(this, req, role) ==
    IF HandlerKind[this] = "UserExistsHandler" THEN UserExistsHandle(req)
    ELSE IF HandlerKind[this] = "PasswordHandler" THEN PasswordHandle(req)
    ELSE RoleHandle(req, role)

Usernames == {"alice", "bob", "charlie", "constructor"}
Passwords == {"1234", "abcd", "wrongpass"}
Roles == {"admin", "user"}

\* userData of a request as the client builds it: absent, or set by the client
ClientUserData == {Undefined, UserRecord("wrongpass", "admin")}

Requests ==
    [username : Usernames, password : Passwords, userData : ClientUserData]

NoRequest == [username |-> "", password |-> "", userData |-> Undefined]

InitHandle ==
    /\ requiredRole = "admin"
    /\ head = Null
    /\ request = NoRequest
    /\ request0 = NoRequest
    /\ current = Null
    /\ invoked = << >>
    /\ out = << >>
    /\ threw = ""
    /\ users = Users
    /\ served = 0

\* The links userExists.setNext(passwordCheck).setNext(roleCheck) leaves.
ReferenceLinks ==
    [h \in Handlers |->
        IF h = "userExists" THEN "passwordCheck"
        ELSE IF h = "passwordCheck" THEN "roleCheck" ELSE Null]

\* Every assignment of successors can be built with setNext: one call per
\* handler that has a successor.
LinkConfigs == [Handlers -> Handlers \cup {Null}]

HandlerOrder == <<"userExists", "passwordCheck", "roleCheck">>

LinkCalls(links) ==
    LET linked == SelectSeq(HandlerOrder, LAMBDA h : links[h] # Null)
    IN  [i \in 1..Len(linked) |->
            [this |-> linked[i], handler |-> links[linked[i]], fluent |-> FALSE]]

\* Handlers constructed and linked, a RoleHandler constructed with some role,
\* no handle call made yet.
InitLinked ==
    /\ InitEditor
    /\ nextHandler \in LinkConfigs
    /\ setCalls = LinkCalls(nextHandler)
    /\ ret = IF setCalls = << >> THEN Null ELSE setCalls[Len(setCalls)].handler
    /\ requiredRole \in Roles
    /\ head = Null
    /\ request = NoRequest
    /\ request0 = NoRequest
    /\ current = Null
    /\ invoked = << >>
    /\ out = << >>
    /\ threw = ""
    /\ users = Users
    /\ served = 0

\* The client calls h.handle(req); no other call is running.
StartHandle ==
    /\ current = Null
    /\ \E h \in Handlers, req \in Requests :
          /\ head' = h
          /\ request' = req
          /\ request0' = req
          /\ current' = h
    /\ invoked' = << >>
    /\ out' = << >>
    /\ threw' = ""
    /\ served < MaxHandleCalls
    /\ served' = served + 1
    /\ UNCHANGED <<requiredRole, users>>

\* current.handle(request) runs: its own body and, when it calls
\* super.handle, the default forwarding, which leaves the successor's handle
\* to run next.
HandleStep ==
    /\ current # Null
    /\ Len(invoked) < MaxCallDepth
    /\ LET r == ConcreteHandle(current, request, requiredRole)
           f == IF r.superCalled THEN AbstractHandle(nextHandler, current, r.request)
                ELSE [callee |-> Null, request |-> r.request]
       IN  /\ invoked' = Append(invoked,
                  [handler |-> current, request |-> request, verdict |-> r.verdict,
                   superCalled |-> r.superCalled, sent |-> r.request])
           /\ request' = f.request
           /\ out' = out \o r.out
           /\ threw' = r.threw
           /\ current' = f.callee
    /\ users' = TableAfter(users, current, request)
    /\ UNCHANGED <<requiredRole, head, request0, served>>

\* The call stack is exhausted: the pending invocation throws instead.
StackOverflow ==
    /\ current # Null
    /\ Len(invoked) >= MaxCallDepth
    /\ threw' = "RangeError"
    /\ current' = Null
    /\ UNCHANGED <<requiredRole, head, request, request0, invoked, out, users, served>>

---------------------------------------------------------------------------
(* state_trafficLight.ts *)

LightStates == {"Red", "Green", "Yellow"}

\* state.action(): the console line of the state
StateAction(state) ==
    CASE state = "Red" -> "Red -> Stop cars!"
      [] state = "Yellow" -> "Yellow -> Get ready!"
      [] state = "Green" -> "Green -> Go!"

\* state.next(light): the state handed to light.setState
StateNext_skipYellow(state) ==
    CASE state = "Red" -> "Green"
      [] state = "Yellow" -> "Red"
      [] state = "Green" -> "Red"
StateNext(state) ==
    CASE state = "Red" -> "Green"
      [] state = "Yellow" -> "Red"
      [] state = "Green" -> "Yellow"

\* light.setState(state)
setState(state) ==
    [state |-> state, lines |-> <<"-> Changing state to " \o state>>]

\* new TrafficLight(new RedState())
InitLight ==
    /\ lightState = "Red"
    /\ lightLog = << >>

\* new TrafficLight(initialState)
InitAnyLight ==
    /\ lightState \in LightStates
    /\ lightLog = << >>

\* trafficLight.action()
LightAction ==
    /\ Len(lightLog) < MaxLightCalls
    /\ lightLog' = Append(lightLog, [op |-> "action", state |-> lightState,
                                     lines |-> <<StateAction(lightState)>>])
    /\ UNCHANGED lightState

\* trafficLight.next()
LightNext ==
    /\ Len(lightLog) < MaxLightCalls
    /\ LET r == setState(StateNext(lightState))
       IN  /\ lightState' = r.state
           /\ lightLog' = Append(lightLog, [op |-> "next", state |-> lightState,
                                            lines |-> r.lines])

---------------------------------------------------------------------------
(* observer_Stock.ts *)

Observers == {"trader", "dashboard", "email"}
NoObserver == "none"
StockPrices == {90, 100, 120}
InitialPrice == 100

\* observer.update(price): the console line
Update(observer, newPrice) ==
    CASE observer = "trader" ->
           "TraderApp: Received stock price update: " \o ToString(newPrice)
      [] observer = "dashboard" ->
           "Dashboard: Stock price is now " \o ToString(newPrice)
      [] observer = "email" ->
           "EmailNotifier: Sending email alert - new stock price: " \o ToString(newPrice)

\* this.observers after subscribe(observer)
subscribe(obs, observer) == Append(obs, observer)

\* this.observers after unsubscribe(observer)
unsubscribe_first(obs, observer) ==
    IF \E i \in 1..Len(obs) : obs[i] = observer
    THEN LET i == CHOOSE k \in 1..Len(obs) :
                     /\ obs[k] = observer
                     /\ \A m \in 1..(k - 1) : obs[m] # observer
         IN  SubSeq(obs, 1, i - 1) \o SubSeq(obs, i + 1, Len(obs))
    ELSE obs
unsubscribe(obs, observer) == SelectSeq(obs, LAMBDA o : o # observer)

\* notify(): the update calls, in order, each with getState()
notify(obs, state) ==
    [i \in 1..Len(obs) |->
        [observer |-> obs[i], price |-> state, line |-> Update(obs[i], state)]]

\* stock.price = newPrice
SetPrice(obs, newPrice) ==
    LET stored == newPrice
    IN  [price |-> stored,
         line |-> "\nStock price updated: " \o ToString(newPrice),
         updates |-> notify(obs, stored)]

\* new Stock(100)
InitStock ==
    /\ observers = << >>
    /\ price = InitialPrice
    /\ stockLog = << >>

\* stock.subscribe(observer)
Subscribe ==
    /\ Len(stockLog) < MaxStockCalls
    /\ \E observer \in Observers :
          /\ observers' = subscribe(observers, observer)
          /\ stockLog' = Append(stockLog, [op |-> "subscribe", observer |-> observer,
                                           price |-> price, updates |-> << >>])
    /\ UNCHANGED price

\* stock.unsubscribe(observer)
Unsubscribe ==
    /\ Len(stockLog) < MaxStockCalls
    /\ \E observer \in Observers :
          /\ observers' = unsubscribe(observers, observer)
          /\ stockLog' = Append(stockLog, [op |-> "unsubscribe", observer |-> observer,
                                           price |-> price, updates |-> << >>])
    /\ UNCHANGED price

\* stock.price = newPrice
AssignPrice ==
    /\ Len(stockLog) < MaxStockCalls
    /\ \E newPrice \in StockPrices :
          LET r == SetPrice(observers, newPrice)
          IN  /\ price' = r.price
              /\ stockLog' = Append(stockLog, [op |-> "price", observer |-> NoObserver,
                                               price |-> newPrice, updates |-> r.updates])
    /\ UNCHANGED observers

---------------------------------------------------------------------------
(* mediator_Chatroom.ts *)

\* The user objects; anna2 is a second object constructed with the name of anna.
ChatUsers == {"nonna", "anna", "ani", "anna2", "proto"}
UserName ==
    [nonna |-> "Nonna", anna |-> "Anna", ani |-> "Ani", anna2 |-> "Anna",
     proto |-> "__proto__"]
NoUser == "undefined"
Chatroom == "chatroom"
Messages == {"Hi Anna!", "Hello everyone!"}

\* this.users after this.users[user.name] = user: a name already present
\* keeps its position and gets the new object; "__proto__" sets the
\* prototype of the table and adds no property.
register(table, user) ==
    IF UserName[user] = "__proto__" THEN table
    ELSE IF \E i \in 1..Len(table) : table[i].name = UserName[user]
    THEN [i \in 1..Len(table) |->
             IF table[i].name = UserName[user]
             THEN [name |-> table[i].name, user |-> user]
             ELSE table[i]]
    ELSE Append(table, [name |-> UserName[user], user |-> user])

\* user.receive(message, from): the call and its console line
receive(user, message, from) ==
    [user |-> user, message |-> message, from |-> from,
     line |-> UserName[user] \o " received a message from " \o UserName[from]
                 \o ": \"" \o message \o "\""]

\* chatroom.send(message, from, to): the receive calls, in order
ChatroomSend_byName(table, message, from, to) ==
    IF to # NoUser
    THEN LET named == SelectSeq(table, LAMBDA e : e.name = UserName[to])
         IN  [i \in 1..Len(named) |-> receive(named[i].user, message, from)]
    ELSE LET others == SelectSeq(table, LAMBDA e : e.user # from)
         IN  [i \in 1..Len(others) |-> receive(others[i].user, message, from)]
ChatroomSend(table, message, from, to) ==
    IF to # NoUser
    THEN <<receive(to, message, from)>>
    ELSE LET others == SelectSeq(table, LAMBDA e : e.user # from)
         IN  [i \in 1..Len(others) |-> receive(others[i].user, message, from)]

\* from.send(message, to)
UserSend_unchecked(table, room, from, message, to) ==
    IF room[from] = Null
    THEN [lines |-> <<UserName[from] \o " sends: \"" \o message \o "\"">>,
          deliveries |-> << >>,
          threw |-> "TypeError"]
    ELSE LET calls == ChatroomSend(table, message, from, to)
         IN  [lines |-> <<UserName[from] \o " sends: \"" \o message \o "\"">>
                           \o [i \in 1..Len(calls) |-> calls[i].line],
              deliveries |-> calls,
              threw |-> ""]
UserSend(table, room, from, message, to) ==
    IF room[from] = Null
    THEN [lines |-> <<UserName[from] \o " is not registered in a chatroom!">>,
          deliveries |-> << >>,
          threw |-> ""]
    ELSE LET calls == ChatroomSend(table, message, from, to)
         IN  [lines |-> <<UserName[from] \o " sends: \"" \o message \o "\"">>
                           \o [i \in 1..Len(calls) |-> calls[i].line],
              deliveries |-> calls,
              threw |-> ""]

NoSend ==
    [from |-> NoUser, to |-> NoUser, message |-> "", lines |-> << >>,
     deliveries |-> << >>, threw |-> ""]

\* new Chatroom() and the users, none registered
InitChat ==
    /\ roomUsers = << >>
    /\ chatroomOf = [u \in ChatUsers |-> Null]
    /\ lastSend = NoSend

\* chatroom.register(user)
Register ==
    \E user \in ChatUsers :
       /\ roomUsers' = register(roomUsers, user)
       /\ chatroomOf' = [chatroomOf EXCEPT ![user] = Chatroom]
       /\ UNCHANGED lastSend

\* from.send(message) and from.send(message, to)
Send ==
    \E from \in ChatUsers, message \in Messages, to \in ChatUsers \cup {NoUser} :
       LET r == UserSend(roomUsers, chatroomOf, from, message, to)
       IN  /\ lastSend' = [from |-> from, to |-> to, message |-> message,
                           lines |-> r.lines, deliveries |-> r.deliveries,
                           threw |-> r.threw]
           /\ UNCHANGED <<roomUsers, chatroomOf>>

---------------------------------------------------------------------------
(* unnamed/part_002 : FriendIterator *)

FriendNames == {"Ani", "Ina"}
NonnaFriends == <<"Ani", "Ina", "Gohar", "Diana">>

\* The friend lists an iterator is constructed over.
FriendLists == UNION {[1..n -> FriendNames] : n \in 0..MaxFriends}

\* this.hasNext()
hasNext(list, pos) == pos < Len(list)

\* this.next(): the value returned and the position left behind;
\* list[pos + 1] is friends[position] of the zero-based array.
next_peek(list, pos) ==
    IF hasNext(list, pos)
    THEN [value |-> list[pos + 1], position |-> pos]
    ELSE [value |-> Null, position |-> pos]
next(list, pos) ==
    IF hasNext(list, pos)
    THEN [value |-> list[pos + 1], position |-> pos + 1]
    ELSE [value |-> Null, position |-> pos]

\* new SocialNetwork([...]).createIterator() of the usage example
InitIterator ==
    /\ friends = NonnaFriends
    /\ position = 0
    /\ iterLog = << >>

\* new FriendIterator(friends)
InitAnyIterator ==
    /\ friends \in FriendLists \cup {NonnaFriends}
    /\ position = 0
    /\ iterLog = << >>

\* iterator.hasNext()
CallHasNext ==
    /\ Len(iterLog) < MaxIterCalls
    /\ iterLog' = Append(iterLog, [op |-> "hasNext", position |-> position,
                                   more |-> hasNext(friends, position),
                                   value |-> Null])
    /\ UNCHANGED <<friends, position>>

\* iterator.next()
CallNext ==
    /\ Len(iterLog) < MaxIterCalls
    /\ LET r == next(friends, position)
       IN  /\ position' = r.position
           /\ iterLog' = Append(iterLog, [op |-> "next", position |-> position,
                                          more |-> hasNext(friends, position),
                                          value |-> r.value])
    /\ UNCHANGED friends

---------------------------------------------------------------------------
(* unnamed/part_001 : Player, PlayerMemento, GameHistory *)

InitialLevel == 1
InitialTask == "Tutorial"
InitialScore == 0
Levels == {2, 3}
Tasks == {"Find the key", "Defeat the boss"}
Scores == {100, 250}
NoMemento == 0

\* new PlayerMemento(level, task, score)
NewPlayerMemento(l, t, s) == [level |-> l, task |-> t, score |-> s]

\* memento.getState()
MementoGetState(memento) ==
    [level |-> memento.level, task |-> memento.task, score |-> memento.score]

\* player.save()
PlayerSave(l, t, s) == NewPlayerMemento(l, t, s)

\* player.restore(memento): the player's fields afterwards
PlayerRestore_keepScore(memento, s) ==
    LET state == MementoGetState(memento)
    IN  [level |-> state.level, task |-> state.task, score |-> s,
         line |-> "Player state restored!"]
PlayerRestore(memento, s) ==
    LET state == MementoGetState(memento)
    IN  [level |-> state.level, task |-> state.task, score |-> state.score,
         line |-> "Player state restored!"]

\* new Player(), new GameHistory()
InitPlayer ==
    /\ level = InitialLevel
    /\ task = InitialTask
    /\ score = InitialScore
    /\ mementos = << >>
    /\ gameHistory = << >>
    /\ playerLog = << >>

\* A Player call as the log keeps it.
PlayerCall(op, l, t, s, memento, line) ==
    [op |-> op, level |-> l, task |-> t, score |-> s, memento |-> memento,
     line |-> line]

\* player.play(l, t, s)
Play ==
    /\ Len(playerLog) < MaxPlayerCalls
    /\ \E l \in Levels, t \in Tasks, s \in Scores :
          /\ level' = l
          /\ task' = t
          /\ score' = s
          /\ playerLog' = Append(playerLog,
                PlayerCall("play", l, t, s, NoMemento,
                           "Player played: Level=" \o ToString(l) \o ", Task=" \o t
                              \o ", Score=" \o ToString(s)))
    /\ UNCHANGED <<mementos, gameHistory>>

\* history.push(player.save())
Save ==
    /\ Len(playerLog) < MaxPlayerCalls
    /\ mementos' = Append(mementos, PlayerSave(level, task, score))
    /\ gameHistory' = Append(gameHistory, Len(mementos) + 1)
    /\ playerLog' = Append(playerLog,
          PlayerCall("save", level, task, score, Len(mementos) + 1, ""))
    /\ UNCHANGED <<level, task, score>>

\* player.restore(m), m a memento the client holds
RestoreFrom(m) ==
    /\ Len(playerLog) < MaxPlayerCalls
    /\ LET r == PlayerRestore(mementos[m], score)
       IN  /\ level' = r.level
           /\ task' = r.task
           /\ score' = r.score
           /\ playerLog' = Append(playerLog,
                 PlayerCall("restore", r.level, r.task, r.score, m, r.line))
    /\ UNCHANGED mementos

\* player.restore(m) with any memento saved earlier
Restore ==
    \E m \in 1..Len(mementos) : RestoreFrom(m) /\ UNCHANGED gameHistory

\* const last = history.pop(); if (last) player.restore(last)
UndoMove ==
    /\ gameHistory # << >>
    /\ RestoreFrom(gameHistory[Len(gameHistory)])
    /\ gameHistory' = SubSeq(gameHistory, 1, Len(gameHistory) - 1)

---------------------------------------------------------------------------
(* Specifications *)

InitOthers == InitLight /\ InitStock /\ InitChat /\ InitIterator /\ InitPlayer

Init == InitEditor /\ InitChain /\ InitHandle /\ InitOthers

Next ==
    \/ ExecuteType /\ UNCHANGED <<chainVars, handleVars, lightVars, stockVars, chatVars,
                 iterVars, playerVars>>
    \/ ExecuteDelete /\ UNCHANGED <<chainVars, handleVars, lightVars, stockVars, chatVars,
                 iterVars, playerVars>>
    \/ Undo /\ UNCHANGED <<chainVars, handleVars, lightVars, stockVars, chatVars,
                 iterVars, playerVars>>

Spec == Init /\ [][Next]_vars

NextDemo ==
    \/ DemoType /\ UNCHANGED <<chainVars, handleVars, lightVars, stockVars, chatVars,
                 iterVars, playerVars>>
    \/ DemoDelete /\ UNCHANGED <<chainVars, handleVars, lightVars, stockVars, chatVars,
                 iterVars, playerVars>>
    \/ Undo /\ UNCHANGED <<chainVars, handleVars, lightVars, stockVars, chatVars,
                 iterVars, playerVars>>

SpecDemo == Init /\ [][NextDemo]_vars

NextReuse ==
    \/ ExecuteType /\ UNCHANGED <<chainVars, handleVars, lightVars, stockVars, chatVars,
                 iterVars, playerVars>>
    \/ ExecuteDelete /\ UNCHANGED <<chainVars, handleVars, lightVars, stockVars, chatVars,
                 iterVars, playerVars>>
    \/ ReExecute /\ UNCHANGED <<chainVars, handleVars, lightVars, stockVars, chatVars,
                 iterVars, playerVars>>
    \/ Undo /\ UNCHANGED <<chainVars, handleVars, lightVars, stockVars, chatVars,
                 iterVars, playerVars>>

SpecReuse == Init /\ [][NextReuse]_vars

NextChain ==
    \/ SetNextDirect /\ UNCHANGED <<editorVars, handleVars, lightVars, stockVars, chatVars,
                 iterVars, playerVars>>
    \/ SetNextFluent /\ UNCHANGED <<editorVars, handleVars, lightVars, stockVars, chatVars,
                 iterVars, playerVars>>

SpecChain == Init /\ [][NextChain]_vars

NextHandle ==
    \/ StartHandle /\ UNCHANGED <<editorVars, chainVars, lightVars, stockVars, chatVars,
                 iterVars, playerVars>>
    \/ HandleStep /\ UNCHANGED <<editorVars, chainVars, lightVars, stockVars, chatVars,
                 iterVars, playerVars>>
    \/ StackOverflow /\ UNCHANGED <<editorVars, chainVars, lightVars, stockVars, chatVars,
                 iterVars, playerVars>>

\* The handlers linked in any way, nothing else touched.
InitChains == InitLinked /\ InitOthers

SpecHandle == InitChains /\ [][NextHandle]_vars

NextLight ==
    \/ LightAction /\ UNCHANGED <<editorVars, chainVars, handleVars, stockVars, chatVars,
                 iterVars, playerVars>>
    \/ LightNext /\ UNCHANGED <<editorVars, chainVars, handleVars, stockVars, chatVars,
                 iterVars, playerVars>>

\* A light constructed in any of its states, nothing else touched.
InitLights ==
    /\ InitEditor /\ InitChain /\ InitHandle
    /\ InitAnyLight /\ InitStock /\ InitChat /\ InitIterator /\ InitPlayer

SpecLight == InitLights /\ [][NextLight]_vars

NextStock ==
    \/ Subscribe /\ UNCHANGED <<editorVars, chainVars, handleVars, lightVars, chatVars,
                 iterVars, playerVars>>
    \/ Unsubscribe /\ UNCHANGED <<editorVars, chainVars, handleVars, lightVars, chatVars,
                 iterVars, playerVars>>
    \/ AssignPrice /\ UNCHANGED <<editorVars, chainVars, handleVars, lightVars, chatVars,
                 iterVars, playerVars>>

SpecStock == Init /\ [][NextStock]_vars

NextChat ==
    \/ Register /\ UNCHANGED <<editorVars, chainVars, handleVars, lightVars, stockVars,
                 iterVars, playerVars>>
    \/ Send /\ UNCHANGED <<editorVars, chainVars, handleVars, lightVars, stockVars,
                 iterVars, playerVars>>

SpecChat == Init /\ [][NextChat]_vars

\* An iterator over any list of friends, nothing else touched.
InitIterators ==
    /\ InitEditor /\ InitChain /\ InitHandle
    /\ InitLight /\ InitStock /\ InitChat /\ InitAnyIterator /\ InitPlayer

NextIterator ==
    \/ CallHasNext /\ UNCHANGED <<editorVars, chainVars, handleVars, lightVars, stockVars,
                 chatVars, playerVars>>
    \/ CallNext /\ UNCHANGED <<editorVars, chainVars, handleVars, lightVars, stockVars,
                 chatVars, playerVars>>

SpecIterator == InitIterators /\ [][NextIterator]_vars

NextPlayer ==
    \/ Play /\ UNCHANGED <<editorVars, chainVars, handleVars, lightVars, stockVars,
                 chatVars, iterVars>>
    \/ Save /\ UNCHANGED <<editorVars, chainVars, handleVars, lightVars, stockVars,
                 chatVars, iterVars>>
    \/ Restore /\ UNCHANGED <<editorVars, chainVars, handleVars, lightVars, stockVars,
                 chatVars, iterVars>>
    \/ UndoMove /\ UNCHANGED <<editorVars, chainVars, handleVars, lightVars, stockVars,
                 chatVars, iterVars>>

SpecPlayer == Init /\ [][NextPlayer]_vars

---------------------------------------------------------------------------
(* Properties of the editor *)

Executed == 1..Len(cmds)

ExecuteOf(c) == [op |-> "executeCommand", cmd |-> c, log |-> ""]
UndoOf(c) == [op |-> "undo", cmd |-> c, log |-> ""]

\* The commands executed and not yet undone.
Live == {c \in Executed : stats[c].undos < stats[c].execs}

SetMax(S) == CHOOSE m \in S : \A x \in S : x <= m

\* The first n characters of s, and the last n.
Prefix(s, n) == SubSeq(s, 1, n)
Suffix(s, n) == SubSeq(s, Len(s) - n + 1, Len(s))

\* C1: a run of executeCommand calls on a fresh editor followed by one undo
\* per executed command (so that the history is empty again) leaves the
\* editor text empty.
C1_RoundTrip ==
    (phase = "undo" /\ history = << >>) => text = << >>

C1_Witness ==
    /\ phase = "undo"
    /\ history = << >>
    /\ Len(cmds) >= 3
    /\ \A c \in Executed : stats[c].undos = 1
    /\ \E c \in Executed : cmds[c].kind = "Type" /\ cmds[c].textToAdd # << >>
    /\ \E c \in Executed : cmds[c].kind = "Delete" /\ cmds[c].deletedText # << >>

\* C2: TypeCommand.execute() immediately followed by its undo() leaves the
\* editor text equal to the text before the execute, for every inserted text
\* (the empty text included).
C2_TypeUndoRestores ==
    \A c \in Executed :
        (cmds[c].kind = "Type" /\ lastCall = UndoOf(c) /\ prevCall = ExecuteOf(c))
            => text = stats[c].pre

\* C3: a DeleteCommand whose count exceeds the length of the text empties the
\* editor on execute(), and the immediately following undo() leaves exactly
\* the text that was there before the execute.
C3_DeleteBeyondLength ==
    \A c \in Executed :
        (cmds[c].kind = "Delete" /\ cmds[c].count > Len(stats[c].pre))
            => /\ lastCall = ExecuteOf(c) => text = << >>
               /\ (lastCall = UndoOf(c) /\ prevCall = ExecuteOf(c)) => text = stats[c].pre

C3_Witness ==
    \E c \in Executed :
        /\ cmds[c].kind = "Delete"
        /\ Len(stats[c].pre) >= 2
        /\ cmds[c].count > Len(stats[c].pre)
        /\ lastCall = UndoOf(c)
        /\ prevCall = ExecuteOf(c)
        /\ text = stats[c].pre

\* C4: deleteText(count) leaves the prefix of length max(length - count, 0) of
\* the old text, for every count >= 0 (count 0 leaves the text unchanged).
\* Stated at the deleteText call of DeleteCommand.execute.
C4_DeleteTextClamps ==
    \A c \in Executed :
        (cmds[c].kind = "Delete" /\ lastCall = ExecuteOf(c))
            => text = Prefix(stats[c].pre, Max(Len(stats[c].pre) - cmds[c].count, 0))

\* C5: EditorInvoker.undo() on an empty history changes neither the editor
\* text nor the history, calls no command's undo() and only reports
\* "Nothing to undo".
C5_UndoOnEmpty ==
    [][(history = << >> /\ lastCall'.op = "undo")
          => /\ text' = text
             /\ history' = << >>
             /\ cmds' = cmds
             /\ stats' = stats
             /\ lastCall'.cmd = NoCommand
             /\ lastCall'.log = "Nothing to undo"]_vars

C5_Witness ==
    /\ lastCall.op = "undo"
    /\ lastCall.cmd = NoCommand
    /\ lastCall.log = "Nothing to undo"
    /\ prevCall.op = "undo"
    /\ prevCall.cmd # NoCommand
    /\ text = << >>
    /\ Len(cmds) >= 2
    /\ \A c \in Executed : stats[c].undos = 1

\* C6: the top of the history is always the most recently executed command
\* that has not been undone, and that is the command whose undo() the next
\* EditorInvoker.undo() invokes.
TopIsMostRecentLive ==
    IF Live = {} THEN history = << >>
    ELSE history # << >> /\ history[Len(history)] = SetMax(Live)

C6_LastInFirstOut ==
    [][/\ TopIsMostRecentLive
       /\ TopIsMostRecentLive'
       /\ (lastCall'.op = "undo" /\ Live # {}) => lastCall'.cmd = SetMax(Live)]_vars

C6_Witness ==
    /\ lastCall.op = "undo"
    /\ lastCall.cmd = 3
    /\ stats[1].undos = 0
    /\ stats[2].undos = 1
    /\ history = <<1>>

\* C7: the history holds exactly the executed and not yet undone commands, in
\* execution order and each once; its length is the number of executeCommand
\* calls minus the number of undo calls made on a non-empty history; no
\* command is executed twice or undone twice by the invoker.
C7_HistoryAccounting ==
    /\ history = SelectSeq([i \in Executed |-> i], LAMBDA c : c \in Live)
    /\ Len(history) = SumExecs(Len(stats)) - SumUndos(Len(stats))
    /\ \A c \in Executed : stats[c].execs = 1 /\ stats[c].undos \in {0, 1}

C7_Witness ==
    /\ Len(cmds) = 3
    /\ history = <<1, 3>>
    /\ stats[2].undos = 1

\* C8: the documented usage example shows the documented text after each of
\* its six calls.
C8_DocumentedScenario ==
    /\ script = 0 => text = << >>
    /\ script \in 1..Len(DemoCalls) => text = DemoOutput[script]

C8_Witness ==
    /\ script = Len(DemoCalls)
    /\ text = << >>
    /\ history = << >>

\* C9: DeleteCommand.execute() records as deletedText exactly the last
\* min(count, length) characters of the text (nothing when count is 0) and
\* leaves the remaining prefix in the editor.
C9_DeletedTextRecorded ==
    \A c \in Executed :
        (cmds[c].kind = "Delete" /\ lastCall = ExecuteOf(c))
            => LET s == stats[c].pre
                   n == Min(cmds[c].count, Len(s))
               IN  /\ cmds[c].deletedText = Suffix(s, n)
                   /\ text = Prefix(s, Len(s) - n)
                   /\ text \o cmds[c].deletedText = s

\* The text obtained by applying the commands of a history prefix to an empty
\* buffer: Type t appends t, Delete n removes the last min(n, length) characters.
RECURSIVE Replay(_)
Replay(n) ==
    IF n = 0 THEN << >>
    ELSE LET before == Replay(n - 1)
             c == cmds[history[n]]
         IN  IF c.kind = "Type" THEN before \o c.textToAdd
             ELSE Prefix(before, Len(before) - Min(c.count, Len(before)))

\* C21: after any interleaving of executeCommand (fresh commands) and undo
\* calls the editor text is the replay of the commands in the history.
C21_ReplayEquivalence ==
    text = Replay(Len(history))

\* No command with nothing to type or nothing to delete was constructed.
NoEmptyCommand ==
    \A c \in Executed :
        IF cmds[c].kind = "Type" THEN cmds[c].textToAdd # << >> ELSE cmds[c].count > 0

\* C22: when command objects are executed more than once and then every
\* history entry is undone in reverse order, each undo restores the text
\* that was present just before the corresponding execution.  Stated for
\* commands that type or delete at least one character.
C22_UndoExactOnReuse ==
    [][(NoEmptyCommand /\ history # << >> /\ lastCall'.op = "undo" /\ phase' = "undo")
          => text' = pres[Len(pres)]]_vars

---------------------------------------------------------------------------
(* Properties of the handler links *)

\* C10: setNext(h) makes h the receiver's successor and returns h, so that
\* a.setNext(b).setNext(c) on three fresh handlers links a -> b -> c, leaves c
\* without successor and evaluates to c.
C10_SetNextReturnsArgument ==
    /\ setCalls # << >> =>
          LET l == setCalls[Len(setCalls)]
          IN  nextHandler[l.this] = l.handler /\ ret = l.handler
    /\ \A a \in Handlers : \A b \in Handlers \ {a} : \A c \in Handlers \ {a, b} :
          ( /\ Len(setCalls) = 2
            /\ setCalls[1] = [this |-> a, handler |-> b, fluent |-> FALSE]
            /\ setCalls[2].handler = c
            /\ setCalls[2].fluent )
          => /\ nextHandler[a] = b
             /\ nextHandler[b] = c
             /\ nextHandler[c] = Null
             /\ ret = c

C10_Witness ==
    /\ Len(setCalls) = 2
    /\ setCalls[1] = [this |-> "userExists", handler |-> "passwordCheck", fluent |-> FALSE]
    /\ setCalls[2].fluent
    /\ nextHandler = [h \in Handlers |->
                        IF h = "userExists" THEN "passwordCheck"
                        ELSE IF h = "passwordCheck" THEN "roleCheck" ELSE Null]
    /\ ret = "roleCheck"

---------------------------------------------------------------------------
(* Properties of handle *)

Calls == 1..Len(invoked)

\* The client's handle call has returned (or thrown).
Finished == head # Null /\ current = Null

\* The call was made on the head of userExists -> passwordCheck -> roleCheck.
OnReferenceChain == head = "userExists" /\ nextHandler = ReferenceLinks

InvokedHandlers == [i \in Calls |-> invoked[i].handler]

Reported(line) == \E k \in 1..Len(out) : out[k] = line

\* The invocation after the i-th is the successor's, unless the call stack
\* ended the call there.
SuccessorRunsNext(i, succ) ==
    IF i < Len(invoked) THEN invoked[i + 1].handler = succ
    ELSE \/ current = succ /\ threw = ""
         \/ threw = "RangeError" /\ Len(invoked) = MaxCallDepth

\* C11: the default handle invokes the successor's handle, once and with the
\* request it was given, when a successor is set; otherwise it does nothing
\* (no report, no change of the request, no exception).
C11_DefaultHandleForwards ==
    \A i \in Calls :
        invoked[i].superCalled =>
            LET succ == nextHandler[invoked[i].handler]
            IN  IF succ # Null
                THEN /\ SuccessorRunsNext(i, succ)
                     /\ i < Len(invoked) => invoked[i + 1].request = invoked[i].sent
                     /\ i = Len(invoked) => request = invoked[i].sent
                ELSE /\ i = Len(invoked)
                     /\ current = Null
                     /\ request = invoked[i].sent
                     /\ out = << >>
                     /\ threw = ""

C11_Witness ==
    /\ Finished
    /\ InvokedHandlers = <<"userExists", "passwordCheck">>
    /\ invoked[1].superCalled
    /\ invoked[2].superCalled
    /\ nextHandler["passwordCheck"] = Null
    /\ out = << >>
    /\ threw = ""

\* C12: on the reference chain a request whose username is not a stored user
\* stops at the existence check: "User does not exist!" is the only report,
\* the request is unchanged, only UserExistsHandler was invoked.
C12_UnknownUserStops ==
    (OnReferenceChain /\ Finished /\ request0.username \notin DOMAIN Users)
        => /\ out = <<UserNotFound>>
           /\ request = request0
           /\ InvokedHandlers = <<"userExists">>

\* C13: on the reference chain a stored user with another password than the
\* stored one passes the existence check and stops at the credential check:
\* "Incorrect password!" is the only report and RoleHandler is not invoked.
C13_WrongPasswordStops ==
    (OnReferenceChain /\ Finished /\ request0.username \in DOMAIN Users)
        => (request0.password # Users[request0.username].password
              => /\ out = <<IncorrectPassword>>
                 /\ InvokedHandlers = <<"userExists", "passwordCheck">>
                 /\ threw = "")

C13_Witness ==
    /\ OnReferenceChain
    /\ Finished
    /\ request0.username = "alice"
    /\ request0.password = "wrongpass"
    /\ out = <<IncorrectPassword>>

\* C14: on the reference chain a stored user with the stored password whose
\* role is not the required one passes the existence and credential checks
\* and stops at the role check: "Access denied" is the only report.
C14_WrongRoleStops ==
    (OnReferenceChain /\ Finished /\ request0.username \in DOMAIN Users)
        => (( /\ request0.password = Users[request0.username].password
              /\ Users[request0.username].role # requiredRole )
              => /\ out = <<AccessDenied>>
                 /\ InvokedHandlers = <<"userExists", "passwordCheck", "roleCheck">>
                 /\ threw = "")

C14_Witness ==
    /\ OnReferenceChain
    /\ Finished
    /\ requiredRole = "admin"
    /\ request0.username = "bob"
    /\ request0.password = "abcd"
    /\ out = <<AccessDenied>>

\* C15: on the reference chain success is reported exactly when the username
\* is a stored user, the password is that user's and the user's role is the
\* required one; with requiredRole "admin" that is alice with "1234" only.
LoginValid ==
    /\ request0.username \in DOMAIN Users
    /\ request0.password = Users[request0.username].password
    /\ Users[request0.username].role = requiredRole

C15_SuccessIffValid ==
    OnReferenceChain
        => /\ Reported(LoggedIn) <=> (Finished /\ LoginValid)
           /\ (Finished /\ requiredRole = "admin")
                 => (Reported(LoggedIn)
                        <=> (request0.username = "alice" /\ request0.password = "1234"))

C15_Witness ==
    /\ OnReferenceChain
    /\ Finished
    /\ requiredRole = "admin"
    /\ request0.username = "alice"
    /\ request0.password = "1234"
    /\ out = <<LoggedIn>>

\* C16: a concrete handler whose predicate holds and that has a successor
\* forwards the request to it; one whose predicate fails does not forward.
C16_ConcreteHandlersForward ==
    \A i \in Calls :
        LET succ == nextHandler[invoked[i].handler]
        IN  /\ (invoked[i].verdict = "pass" /\ succ # Null) => SuccessorRunsNext(i, succ)
            /\ invoked[i].verdict = "fail" => (i = Len(invoked) /\ current = Null)

\* C17 as stated: a handler that forwards passes on the request with the
\* fields and values it received.
C17_ForwardedUnchanged ==
    \A i \in Calls :
        (invoked[i].superCalled /\ nextHandler[invoked[i].handler] # Null)
            => /\ invoked[i].sent = invoked[i].request
               /\ i < Len(invoked) => invoked[i + 1].request = invoked[i].request

\* C17 as amended: a handler that reports leaves the request as it received
\* it; a handler that forwards passes on the same request with username and
\* password unchanged, UserExistsHandler having set userData to what its user
\* table holds for the username, PasswordHandler having changed nothing.
C17_ForwardedWithUserData ==
    \A i \in Calls :
        /\ invoked[i].verdict = "fail" => invoked[i].sent = invoked[i].request
        /\ invoked[i].superCalled
              => /\ invoked[i].sent.username = invoked[i].request.username
                 /\ invoked[i].sent.password = invoked[i].request.password
                 /\ IF HandlerKind[invoked[i].handler] = "UserExistsHandler"
                    THEN invoked[i].sent.userData = UsersLookup(invoked[i].request.username)
                    ELSE invoked[i].sent = invoked[i].request
                 /\ i < Len(invoked) => invoked[i + 1].request = invoked[i].sent

C17_Witness ==
    /\ OnReferenceChain
    /\ Len(invoked) = 3
    /\ invoked[1].sent # invoked[1].request
    /\ invoked[2].sent = invoked[2].request
    /\ invoked[3].request.userData = Users["alice"]

\* C18: on the reference chain, whenever PasswordHandler.handle or
\* RoleHandler.handle is invoked, request.userData is the stored record of
\* request.username.
C18_UserDataIsStoredRecord ==
    OnReferenceChain =>
        \A i \in Calls :
            invoked[i].handler \in {"passwordCheck", "roleCheck"}
                => /\ invoked[i].request.username \in DOMAIN Users
                   /\ invoked[i].request.userData = UsersLookup(invoked[i].request.username)
                   /\ invoked[i].request.userData.kind = "record"

\* C19: handle on the head of any chain built with setNext completes without
\* an exception, for every request with a username and a password.
C19_NeverThrows ==
    threw = ""

\* C20: on the reference chain one handle call reports exactly one of the
\* four outcomes, and no handler is invoked after one that reported a failure.
C20_ExactlyOneOutcome ==
    OnReferenceChain
        => /\ Finished => ( /\ Len(out) = 1
                            /\ out[1] \in {UserNotFound, IncorrectPassword, AccessDenied, LoggedIn} )
           /\ \A i \in Calls :
                 invoked[i].verdict = "fail" => (i = Len(invoked) /\ current = Null)

C20_Witness ==
    /\ OnReferenceChain
    /\ Finished
    /\ InvokedHandlers = <<"userExists", "passwordCheck">>
    /\ invoked[2].verdict = "fail"
    /\ out = <<IncorrectPassword>>

\* The handlers met when following the links from h for n steps.
RECURSIVE Walk(_, _)
Walk(h, n) ==
    IF h = Null \/ n = 0 THEN << >> ELSE <<h>> \o Walk(nextHandler[h], n - 1)

\* Following the links from h ends at a handler without successor.
Linear(h) == Len(Walk(h, Cardinality(Handlers) + 1)) <= Cardinality(Handlers)

\* C23: handle terminates on every chain setNext can build, chains on which a
\* handler is reachable from itself included; the handlers are invoked in
\* link order, and on a linear chain each at most once.
C23_HandleTerminates ==
    /\ threw # "RangeError"
    /\ \A i \in Calls :
          i < Len(invoked) => invoked[i + 1].handler = nextHandler[invoked[i].handler]
    /\ (head # Null /\ Linear(head))
          => \A i \in Calls : \A j \in Calls :
                invoked[i].handler = invoked[j].handler => i = j

\* What the reference chain reports for a username and a password, from the
\* user table as constructed and the required role alone.
ExpectedOut(username, password, role) ==
    IF username \notin DOMAIN Users /\ username \notin ObjectPrototypeKeys
    THEN <<UserNotFound>>
    ELSE IF username \notin DOMAIN Users \/ Users[username].password # password
    THEN <<IncorrectPassword>>
    ELSE IF Users[username].role # role THEN <<AccessDenied>>
    ELSE <<LoggedIn>>

\* C24: the chain keeps no state between requests: whatever was handled
\* before, a call on the reference chain reports what its username, its
\* password and the required role determine, and handling changes neither
\* the user table nor a successor link nor the required role.
C24_NoStateBetweenRequests ==
    /\ []((OnReferenceChain /\ Finished /\ threw = "")
             => out = ExpectedOut(request0.username, request0.password, requiredRole))
    /\ [][users' = users /\ nextHandler' = nextHandler /\ requiredRole' = requiredRole]_vars

C24_Witness ==
    /\ OnReferenceChain
    /\ Finished
    /\ served = 2
    /\ request0.username = "alice"
    /\ request0.password = "1234"
    /\ requiredRole = "admin"
    /\ out = <<LoggedIn>>
    /\ users = Users

\* C25: a handler has at most one successor; it has none before its first
\* setNext; each setNext(h) makes h its only successor (the default handle
\* forwards to h) and leaves the other handlers' links alone; a handler that
\* has a successor never goes back to having none.
C25_OneSuccessor ==
    [][/\ \A h \in Handlers : nextHandler[h] \in Handlers \cup {Null}
       /\ setCalls = << >> => \A h \in Handlers : nextHandler[h] = Null
       /\ \A h \in Handlers : nextHandler[h] # Null => nextHandler'[h] # Null
       /\ setCalls' # setCalls
             => LET l == setCalls'[Len(setCalls')]
                IN  /\ nextHandler'[l.this] = l.handler
                    /\ AbstractHandle(nextHandler', l.this, NoRequest).callee = l.handler
                    /\ \A h \in Handlers \ {l.this} : nextHandler'[h] = nextHandler[h]]_vars

C25_Witness ==
    /\ Len(setCalls) = 2
    /\ setCalls[1].this = setCalls[2].this
    /\ setCalls[1].handler # setCalls[2].handler
    /\ nextHandler[setCalls[2].this] = setCalls[2].handler

---------------------------------------------------------------------------
(* Properties of the traffic light *)

\* The documented cycle Red -> Green -> Yellow -> Red.
CycleSuccessor == [Red |-> "Green", Green |-> "Yellow", Yellow |-> "Red"]

\* The state of the light after its i-th call.
StateAfter(i) == IF i < Len(lightLog) THEN lightLog[i + 1].state ELSE lightState

\* C26: next() follows the cycle Red -> Green -> Yellow -> Red from each of
\* the three states, the current state is always one of the three, three
\* consecutive next() calls return to the state they started from, and
\* action() leaves the state as it is.
C26_FixedCycle ==
    /\ lightState \in LightStates
    /\ \A i \in 1..Len(lightLog) :
          /\ lightLog[i].state \in LightStates
          /\ lightLog[i].op = "next"
                => /\ StateAfter(i) = CycleSuccessor[lightLog[i].state]
                   /\ lightLog[i].lines = <<"-> Changing state to " \o StateAfter(i)>>
          /\ lightLog[i].op = "action" => StateAfter(i) = lightLog[i].state
    /\ \A i \in 1..(Len(lightLog) - 2) :
          (\A k \in i..(i + 2) : lightLog[k].op = "next")
             => StateAfter(i + 2) = lightLog[i].state

C26_Witness ==
    /\ Len(lightLog) = 5
    /\ lightLog[1].op = "action"
    /\ lightLog[1].state = "Green"
    /\ \A k \in 2..4 : lightLog[k].op = "next"
    /\ lightLog[3].state = "Yellow"
    /\ lightLog[5].op = "action"
    /\ lightState = "Green"

---------------------------------------------------------------------------
(* Properties of the stock and its observers *)

\* The observers subscribed at present.
Subscribed == {observers[i] : i \in 1..Len(observers)}

\* The number of update calls in updates made on observer.
UpdatesOf(updates, observer) ==
    Cardinality({i \in 1..Len(updates) : updates[i].observer = observer})

\* The position at which a subscribed observer was first subscribed.
FirstSubscription(observer) ==
    CHOOSE i \in 1..Len(observers) :
       /\ observers[i] = observer
       /\ \A k \in 1..(i - 1) : observers[k] # observer

\* C27: an assignment to price stores the new price, then updates every
\* subscribed observer exactly once, in subscription order, with the price
\* just stored; an observer that is not subscribed gets no update.
C27_NotifyEachOnce ==
    [][(stockLog' # stockLog /\ stockLog'[Len(stockLog')].op = "price")
          => LET call == stockLog'[Len(stockLog')]
             IN  /\ price' = call.price
                 /\ \A o \in Observers :
                       UpdatesOf(call.updates, o) = IF o \in Subscribed THEN 1 ELSE 0
                 /\ \A i \in 1..Len(call.updates) :
                       /\ call.updates[i].price = price'
                       /\ call.updates[i].line = Update(call.updates[i].observer, price')
                 /\ \A i \in 1..Len(call.updates) : \A j \in i..Len(call.updates) :
                       FirstSubscription(call.updates[i].observer)
                          <= FirstSubscription(call.updates[j].observer)]_vars

\* The observers of obs other than observer, in the order of obs.
Others(obs, observer) == SelectSeq(obs, LAMBDA o : o # observer)

\* C28: after unsubscribe(o), o gets no update from a later price assignment
\* until it is subscribed again, however often it had been subscribed; the
\* call leaves the other observers subscribed in their relative order, and
\* changes nothing when o was not subscribed.
C28_UnsubscribeStopsUpdates ==
    /\ [](\A i \in 1..Len(stockLog) : \A j \in (i + 1)..Len(stockLog) :
             (/\ stockLog[i].op = "unsubscribe"
              /\ stockLog[j].op = "price"
              /\ \A k \in (i + 1)..(j - 1) :
                    ~(/\ stockLog[k].op = "subscribe"
                      /\ stockLog[k].observer = stockLog[i].observer))
                => UpdatesOf(stockLog[j].updates, stockLog[i].observer) = 0)
    /\ [][(stockLog' # stockLog /\ stockLog'[Len(stockLog')].op = "unsubscribe")
             => LET o == stockLog'[Len(stockLog')].observer
                IN  /\ Others(observers', o) = Others(observers, o)
                    /\ o \notin Subscribed => observers' = observers
                    /\ price' = price]_vars

C28_Witness ==
    /\ Len(stockLog) = 5
    /\ stockLog[1].op = "subscribe" /\ stockLog[1].observer = "trader"
    /\ stockLog[2].op = "subscribe" /\ stockLog[2].observer = "dashboard"
    /\ stockLog[3].op = "subscribe" /\ stockLog[3].observer = "trader"
    /\ stockLog[4].op = "unsubscribe" /\ stockLog[4].observer = "trader"
    /\ stockLog[5].op = "price"
    /\ Len(stockLog[5].updates) = 1
    /\ stockLog[5].updates[1].observer = "dashboard"
    /\ observers = <<"dashboard">>

---------------------------------------------------------------------------
(* Properties of the chatroom *)

\* The users chatroom.register was called with.
Registered == {u \in ChatUsers : chatroomOf[u] # Null}

\* The number of receive calls in deliveries made on user.
ReceivedBy(deliveries, user) ==
    Cardinality({i \in 1..Len(deliveries) : deliveries[i].user = user})

\* C29: a broadcast from a registered user is delivered exactly once to each
\* other registered user and not to the sender.
C29_BroadcastReachesOthers ==
    [][(/\ lastSend' # lastSend
        /\ lastSend'.to = NoUser
        /\ lastSend'.from \in Registered)
          => \A u \in ChatUsers :
                ReceivedBy(lastSend'.deliveries, u)
                   = IF u \in Registered \ {lastSend'.from} THEN 1 ELSE 0]_vars

\* C30: a private message from a registered user is delivered exactly once,
\* to the recipient named in the call, and to no other user.
C30_PrivateReachesRecipient ==
    [][(/\ lastSend' # lastSend
        /\ lastSend'.to # NoUser
        /\ lastSend'.from \in Registered)
          => /\ \A u \in ChatUsers :
                   ReceivedBy(lastSend'.deliveries, u)
                      = IF u = lastSend'.to THEN 1 ELSE 0
             /\ \A i \in 1..Len(lastSend'.deliveries) :
                   /\ lastSend'.deliveries[i].message = lastSend'.message
                   /\ lastSend'.deliveries[i].from = lastSend'.from]_vars

C30_Witness ==
    /\ lastSend.from = "nonna"
    /\ lastSend.to = "anna"
    /\ lastSend.message = "Hi Anna!"
    /\ "nonna" \in Registered
    /\ \E i \in 1..Len(roomUsers) : roomUsers[i].user = "anna2"
    /\ lastSend.deliveries = <<receive("anna", "Hi Anna!", "nonna")>>
    /\ lastSend.lines = <<"Nonna sends: \"Hi Anna!\"",
                          "Anna received a message from Nonna: \"Hi Anna!\"">>

\* C31: send by a user that was never registered calls receive on nobody,
\* reports that the user is not registered, and completes without throwing.
C31_UnregisteredSendReported ==
    [][(lastSend' # lastSend /\ lastSend'.from \notin Registered)
          => /\ lastSend'.deliveries = << >>
             /\ lastSend'.lines
                   = <<UserName[lastSend'.from] \o " is not registered in a chatroom!">>
             /\ lastSend'.threw = ""
             /\ roomUsers' = roomUsers
             /\ chatroomOf' = chatroomOf]_vars

C31_Witness ==
    /\ lastSend.from = "ani"
    /\ "ani" \notin Registered
    /\ lastSend.to = NoUser
    /\ {"nonna", "anna"} \subseteq Registered
    /\ Len(roomUsers) = 2
    /\ lastSend.deliveries = << >>
    /\ lastSend.lines = <<"Ani is not registered in a chatroom!">>

\* The users stored in the user table of the chatroom.
Stored == {roomUsers[i].user : i \in 1..Len(roomUsers)}

\* C32: after any sequence of register calls, two users of the same name
\* included, a user refers to the chatroom exactly when the user table of
\* the chatroom stores that user.
C32_RegistryConsistent ==
    \A u \in ChatUsers : chatroomOf[u] = Chatroom <=> u \in Stored

---------------------------------------------------------------------------
(* Properties of the friend iterator *)

\* The number of next() calls among the first i calls.
NextCalls(i) == Cardinality({k \in 1..i : iterLog[k].op = "next"})

\* The position of the iterator after its i-th call.
PositionAfter(i) == IF i < Len(iterLog) THEN iterLog[i + 1].position ELSE position

\* C33: over a list of n friends, whatever the interleaving of the calls,
\* the k-th next() returns the k-th friend for k <= n and null afterwards,
\* hasNext() is true exactly while fewer than n next() calls were made,
\* hasNext() leaves the position alone, and the position stays in 0..n.
C33_IteratorInOrder ==
    /\ position \in 0..Len(friends)
    /\ \A i \in 1..Len(iterLog) :
          /\ iterLog[i].position \in 0..Len(friends)
          /\ iterLog[i].op = "next"
                => iterLog[i].value = IF NextCalls(i) <= Len(friends)
                                      THEN friends[NextCalls(i)]
                                      ELSE Null
          /\ iterLog[i].op = "hasNext"
                => /\ iterLog[i].more = (NextCalls(i) < Len(friends))
                   /\ PositionAfter(i) = iterLog[i].position

C33_Witness ==
    /\ friends = <<"Ani", "Ina">>
    /\ Len(iterLog) = 5
    /\ iterLog[1].op = "next" /\ iterLog[1].value = "Ani"
    /\ iterLog[2].op = "hasNext" /\ iterLog[2].more
    /\ iterLog[3].op = "next" /\ iterLog[3].value = "Ina"
    /\ iterLog[4].op = "hasNext" /\ ~iterLog[4].more
    /\ iterLog[5].op = "next" /\ iterLog[5].value = Null
    /\ position = 2

---------------------------------------------------------------------------
(* Properties of the player and its mementos *)

\* The call of the log that constructed memento m.
SaveOf(m) ==
    CHOOSE i \in 1..Len(playerLog) :
       playerLog[i].op = "save" /\ playerLog[i].memento = m

\* The player's fields after the i-th call.
FieldsAfter(i) ==
    [level |-> playerLog[i].level, task |-> playerLog[i].task,
     score |-> playerLog[i].score]

\* C34: restore(m) sets level, task and score to the values they had when
\* save() returned m, whatever was played in between, and the state a
\* memento holds is never changed by a later play, save or restore.
C34_MementoRoundTrip ==
    /\ \A m \in 1..Len(mementos) :
          MementoGetState(mementos[m]) = FieldsAfter(SaveOf(m))
    /\ \A i \in 1..Len(playerLog) :
          playerLog[i].op = "restore"
             => /\ SaveOf(playerLog[i].memento) < i
                /\ FieldsAfter(i) = FieldsAfter(SaveOf(playerLog[i].memento))
    /\ playerLog # << >>
          => [level |-> level, task |-> task, score |-> score]
                = FieldsAfter(Len(playerLog))

C34_Witness ==
    /\ Len(playerLog) = 4
    /\ playerLog[1].op = "play"
    /\ playerLog[2].op = "save"
    /\ playerLog[3].op = "play"
    /\ playerLog[3].level # playerLog[1].level
    /\ playerLog[3].task # playerLog[1].task
    /\ playerLog[3].score # playerLog[1].score
    /\ playerLog[4].op = "restore"
    /\ playerLog[4].memento = 1
    /\ level = playerLog[1].level
    /\ task = playerLog[1].task
    /\ score = playerLog[1].score

===========================================================================
